---------------------------- MODULE Spec2Model ----------------------------
(*
  The two PR review orchestrators of the repository:

    sdk : src/scripts/pr-review-agent.mjs   (Claude Agent SDK, query() stream)
    cli : src/unnamed/part_000              (Cline CLI, execSync of shell commands)

  Both read five environment inputs, validate them, derive owner/repo from
  GITHUB_REPOSITORY, export GH_TOKEN and then run one review session.
  JavaScript strings are modelled as sequences of one-character strings,
  `undefined` as a value of its own (JsUndefined).
*)
EXTENDS Integers, Sequences, FiniteSets, TLC

VARIABLES
    script,        \* which of the two scripts this process runs
    env,           \* process.env: the five inputs and GH_TOKEN
    owner, repo,   \* const [owner, repo] = GITHUB_REPOSITORY.split("/")
    pc,            \* position of the process
    exitCode,      \* process exit code, NoExit while running
    log,           \* console output, in emission order
    queryCalls,    \* number of query() calls (sdk)
    stream,        \* the events the agent runtime emits on this session's stream
    ending,        \* what the runtime does after the stream's events; "none"
                   \* before query(), "startError" when query() threw
    pos,           \* number of events the for-await loop has received
    message,       \* the loop variable `message`
    configCalls,   \* number of `cline config set` executions (cli)
    taskCalls,     \* number of task-command executions (cli)
    oldTask,       \* cli: a task of an earlier run exists in cline's store
    bg,            \* cli: the background `cline task new`
    fg,            \* cli: the foreground `sleep 2 && cline task view`
    followed,      \* cli: the task the view command attached to
    viewStatus,    \* cli: exit status of the view command
    submissions    \* review submissions made by the orchestrator itself

vars == <<script, env, owner, repo, pc, exitCode, log, queryCalls, stream,
          ending, pos, message, configCalls, taskCalls, oldTask, bg, fg,
          followed, viewStatus, submissions>>

sdkVars == <<queryCalls, stream, ending, pos, message>>
cliVars == <<configCalls, taskCalls, bg, fg, followed, viewStatus>>

--------------------------------------------------------------------------
(* Bounds *)

MaxEvents == 3

NoExit == 0 - 1

--------------------------------------------------------------------------
(* JavaScript values *)

JsUndefined == [def |-> FALSE, s |-> <<>>]

JsString(s) == [def |-> TRUE, s |-> s]

\* !x for a value that is undefined or a string
Falsy(v) == (~v.def) \/ (v.s = <<>>)

RECURSIVE SplitFrom(_, _, _, _)
SplitFrom(s, sep, cur, acc) ==
    IF s = <<>> THEN Append(acc, cur)
    ELSE IF Head(s) = sep
         THEN SplitFrom(Tail(s), sep, <<>>, Append(acc, cur))
         ELSE SplitFrom(Tail(s), sep, Append(cur, Head(s)), acc)

\* String.prototype.split(sep) for a one-character separator
Split(s, sep) == SplitFrom(s, sep, <<>>, <<>>)

\* array destructuring: the i-th element, or undefined past the end
Destructure(parts, i) ==
    IF i <= Len(parts) THEN JsString(parts[i]) ELSE JsUndefined

--------------------------------------------------------------------------
(* Inputs *)

Scripts == {"sdk", "cli"}

CredentialInputs == {JsUndefined, JsString(<<>>), JsString(<<"k">>)}

RepositoryInputs ==
    {JsUndefined, JsString(<<>>), JsString(<<"o">>), JsString(<<"o", "/">>),
     JsString(<<"o", "/", "r">>)}

NumberInputs == {JsUndefined, JsString(<<>>), JsString(<<"7">>)}

ShaInputs == {JsUndefined, JsString(<<>>), JsString(<<"c">>)}

--------------------------------------------------------------------------
(* Session events, as the for-await loop sees them *)

Event(type, subtype, hasContent, content, costIsNumber, denials) ==
    [type |-> type, subtype |-> subtype, hasContent |-> hasContent,
     content |-> content, costIsNumber |-> costIsNumber, denials |-> denials]

NoMessage == Event("none", "", FALSE, <<>>, FALSE, 0)

AssistantEvent(hasContent, content) ==
    Event("assistant", "", hasContent, content, FALSE, 0)

ResultEvent(subtype, costIsNumber, denials) ==
    Event("result", subtype, FALSE, <<>>, costIsNumber, denials)

AssistantEvents ==
    {AssistantEvent(TRUE, <<"text", "tool_use">>),
     AssistantEvent(TRUE, <<>>),
     AssistantEvent(FALSE, <<>>)}

ResultEvents ==
    {ResultEvent("success", TRUE, 0),
     ResultEvent("error_max_turns", TRUE, 0),
     ResultEvent("error_during_execution", TRUE, 1),
     ResultEvent("error_max_budget_usd", TRUE, 0),
     ResultEvent("success", FALSE, 0)}

SystemEvents ==
    {Event("system", "init", FALSE, <<>>, FALSE, 0),
     Event("system", "compact_boundary", FALSE, <<>>, FALSE, 0)}

OtherEvents == {Event("user", "", FALSE, <<>>, FALSE, 0)}

Events == AssistantEvents \cup ResultEvents \cup SystemEvents \cup OtherEvents

RECURSIVE SeqsUpTo(_, _)
SeqsUpTo(S, n) ==
    IF n = 0 THEN {<<>>}
    ELSE LET shorter == SeqsUpTo(S, n - 1)
         IN  shorter \cup {Append(q, e) : q \in shorter, e \in S}

Streams == SeqsUpTo(Events, MaxEvents)

\* after its events the runtime closes the stream, breaks it, or does neither
Endings == {"close", "fault", "hang"}

--------------------------------------------------------------------------
(* Console output *)

Line(fmt, arg) == [fmt |-> fmt, arg |-> arg]

RECURSIVE SegmentLines(_)
SegmentLines(content) ==
    IF content = <<>> THEN <<>>
    ELSE LET c == Head(content)
             out == IF c = "text" THEN <<Line("[Assistant] ", "text")>>
                    ELSE IF c = "tool_use"
                         THEN <<Line("[Tool Use] ", "name"),
                                Line("JSON.stringify", "input")>>
                         ELSE <<>>
         IN  out \o SegmentLines(Tail(content))

SubtypeLines(m) ==
    IF m.subtype = "success" THEN <<Line("Result: ", "result")>>
    ELSE IF m.subtype = "error_max_turns"
         THEN <<Line("Review reached maximum turns limit", "")>>
         ELSE IF m.subtype = "error_during_execution"
              THEN <<Line("Error occurred during review execution", "")>>
              ELSE <<>>

DenialLines(m) ==
    IF m.denials > 0 THEN <<Line("Permission denials: ", "length")>> ELSE <<>>

\* The body of the for-await loop for one message: the lines it prints and
\* whether it throws (a TypeError on a missing content list or cost).
HandleResult(m) ==
    LET head == <<Line("=== Review Completed ===", ""),
                  Line("Duration: ", "duration_ms"),
                  Line("Turns: ", "num_turns")>>
    IN  IF ~m.costIsNumber
        THEN [lines |-> head, throws |-> TRUE]
        ELSE [lines |-> head \o <<Line("Cost: $", "total_cost_usd"),
                                  Line("Status: ", m.subtype)>>
                             \o SubtypeLines(m) \o DenialLines(m),
              throws |-> FALSE]

\* a loop body that reads the first segment of an assistant message unguarded
HandleBodyEmptyThrows(m) ==
    IF m.type = "assistant"
    THEN IF m.hasContent /\ m.content # <<>>
         THEN [lines |-> SegmentLines(m.content), throws |-> FALSE]
         ELSE [lines |-> <<>>, throws |-> TRUE]
    ELSE IF m.type = "result"
         THEN HandleResult(m)
         ELSE IF m.type = "system" /\ m.subtype = "init"
              THEN [lines |-> <<Line("[System] Initialized", ""),
                                Line("  Model: ", "model"),
                                Line("  Working Directory: ", "cwd"),
                                Line("  Tools: ", "tools"),
                                Line("  MCP Servers: ", "mcp_servers")>>,
                    throws |-> FALSE]
              ELSE [lines |-> <<>>, throws |-> FALSE]

\* a loop body that prints the init block for every system message
HandleBodyAnySystem(m) ==
    IF m.type = "assistant"
    THEN IF m.hasContent
         THEN [lines |-> SegmentLines(m.content), throws |-> FALSE]
         ELSE [lines |-> <<>>, throws |-> TRUE]
    ELSE IF m.type = "result"
         THEN HandleResult(m)
         ELSE IF m.type = "system"
              THEN [lines |-> <<Line("[System] Initialized", ""),
                                Line("  Model: ", "model"),
                                Line("  Working Directory: ", "cwd"),
                                Line("  Tools: ", "tools"),
                                Line("  MCP Servers: ", "mcp_servers")>>,
                    throws |-> FALSE]
              ELSE [lines |-> <<>>, throws |-> FALSE]

\* a loop body that prints the init block only the first time
HandleBodyInitOnce(m) ==
    IF m.type = "assistant"
    THEN IF m.hasContent
         THEN [lines |-> SegmentLines(m.content), throws |-> FALSE]
         ELSE [lines |-> <<>>, throws |-> TRUE]
    ELSE IF m.type = "result"
         THEN HandleResult(m)
         ELSE IF m.type = "system" /\ m.subtype = "init"
                 /\ ~(\E k \in 1..Len(log) : log[k].line.fmt = "[System] Initialized")
              THEN [lines |-> <<Line("[System] Initialized", ""),
                                Line("  Model: ", "model"),
                                Line("  Working Directory: ", "cwd"),
                                Line("  Tools: ", "tools"),
                                Line("  MCP Servers: ", "mcp_servers")>>,
                    throws |-> FALSE]
              ELSE [lines |-> <<>>, throws |-> FALSE]

HandleBody(m) ==
    IF m.type = "assistant"
    THEN IF m.hasContent
         THEN [lines |-> SegmentLines(m.content), throws |-> FALSE]
         ELSE [lines |-> <<>>, throws |-> TRUE]
    ELSE IF m.type = "result"
         THEN HandleResult(m)
         ELSE IF m.type = "system" /\ m.subtype = "init"
              THEN [lines |-> <<Line("[System] Initialized", ""),
                                Line("  Model: ", "model"),
                                Line("  Working Directory: ", "cwd"),
                                Line("  Tools: ", "tools"),
                                Line("  MCP Servers: ", "mcp_servers")>>,
                    throws |-> FALSE]
              ELSE [lines |-> <<>>, throws |-> FALSE]

\* output tagged with the number of the event whose handling printed it
\* (0: printed outside the loop body)
Tagged(lines, i) == [k \in 1..Len(lines) |-> [ev |-> i, line |-> lines[k]]]

Printed(fmt) == \E k \in 1..Len(log) : log[k].line.fmt = fmt

SuccessMessage ==
    IF script = "sdk" THEN "PR Review Agent completed successfully"
                      ELSE "PR Review completed successfully"

--------------------------------------------------------------------------
(* Environment validation and owner/repo derivation (both scripts) *)

\* the validation without the HEAD_SHA test
ValidationErrorNoSha(e) ==
    IF Falsy(e.ANTHROPIC_API_KEY)
    THEN "Error: ANTHROPIC_API_KEY environment variable is required"
    ELSE IF Falsy(e.GITHUB_TOKEN)
         THEN "Error: GITHUB_TOKEN environment variable is required"
         ELSE IF Falsy(e.GITHUB_REPOSITORY) \/ Falsy(e.PR_NUMBER)
              THEN "Error: GitHub environment variables missing"
              ELSE ""

\* the message of the check that fails first, "" when all three pass
ValidationError(e) ==
    IF Falsy(e.ANTHROPIC_API_KEY)
    THEN "Error: ANTHROPIC_API_KEY environment variable is required"
    ELSE IF Falsy(e.GITHUB_TOKEN)
         THEN "Error: GITHUB_TOKEN environment variable is required"
         ELSE IF Falsy(e.GITHUB_REPOSITORY) \/ Falsy(e.PR_NUMBER)
                 \/ Falsy(e.HEAD_SHA)
              THEN "Error: GitHub environment variables missing"
              ELSE ""

OwnerRepo(e) == Split(e.GITHUB_REPOSITORY.s, "/")

Init ==
    /\ script \in Scripts
    /\ env \in [ANTHROPIC_API_KEY : CredentialInputs,
                GITHUB_TOKEN : CredentialInputs,
                GITHUB_REPOSITORY : RepositoryInputs,
                PR_NUMBER : NumberInputs,
                HEAD_SHA : ShaInputs,
                GH_TOKEN : {JsUndefined}]
    /\ owner = JsUndefined
    /\ repo = JsUndefined
    /\ pc = "validate"
    /\ exitCode = NoExit
    /\ log = <<>>
    /\ queryCalls = 0
    /\ stream = <<>>
    /\ ending = "none"
    /\ pos = 0
    /\ message = NoMessage
    /\ configCalls = 0
    /\ taskCalls = 0
    /\ oldTask \in BOOLEAN
    /\ bg = "notStarted"
    /\ fg = "notStarted"
    /\ followed = "none"
    /\ viewStatus = NoExit
    /\ submissions = 0

\* process.exit(code) after printing lines
Exit(lines, code) ==
    /\ log' = log \o lines
    /\ exitCode' = code
    /\ pc' = "exited"

\* a top level that does not export GH_TOKEN
ValidateEnvNoExport ==
    /\ pc = "validate"
    /\ IF ValidationError(env) # ""
       THEN /\ Exit(Tagged(<<Line(ValidationError(env), "")>>, 0), 1)
            /\ UNCHANGED <<env, owner, repo>>
       ELSE /\ owner' = Destructure(OwnerRepo(env), 1)
            /\ repo' = Destructure(OwnerRepo(env), 2)
            /\ env' = env
            /\ log' = log \o Tagged(<<Line("Starting AI-powered review for ",
                                           "GITHUB_REPOSITORY#PR_NUMBER")>>, 0)
            /\ pc' = IF script = "sdk" THEN "runAgent" ELSE "config"
            /\ UNCHANGED exitCode
    /\ UNCHANGED <<script, oldTask, submissions, sdkVars, cliVars>>

\* top level of either script, up to the "Starting AI-powered review" line
ValidateEnv ==
    /\ pc = "validate"
    /\ IF ValidationError(env) # ""
       THEN /\ Exit(Tagged(<<Line(ValidationError(env), "")>>, 0), 1)
            /\ UNCHANGED <<env, owner, repo>>
       ELSE /\ owner' = Destructure(OwnerRepo(env), 1)
            /\ repo' = Destructure(OwnerRepo(env), 2)
            /\ env' = [env EXCEPT !.GH_TOKEN = env.GITHUB_TOKEN]
            /\ log' = log \o Tagged(<<Line("Starting AI-powered review for ",
                                           "GITHUB_REPOSITORY#PR_NUMBER")>>, 0)
            /\ pc' = IF script = "sdk" THEN "runAgent" ELSE "config"
            /\ UNCHANGED exitCode
    /\ UNCHANGED <<script, oldTask, submissions, sdkVars, cliVars>>

--------------------------------------------------------------------------
(* sdk: runAgent() *)

\* a catch block that runs the agent again instead of exiting
CatchRetry(lines) ==
    /\ log' = log \o lines \o Tagged(<<Line("Fatal error:", "error")>>, 0)
    /\ pc' = "runAgent"
    /\ UNCHANGED exitCode

\* a catch block that exits with code 0
CatchExitZero(lines) ==
    Exit(lines \o Tagged(<<Line("Fatal error:", "error")>>, 0), 0)

\* catch (error) { console.error("Fatal error:", error); process.exit(1) }
Catch(lines) == Exit(lines \o Tagged(<<Line("Fatal error:", "error")>>, 0), 1)

\* query() is called once; it throws, or returns the session's stream
Query ==
    /\ pc = "runAgent"
    /\ script = "sdk"
    /\ queryCalls' = queryCalls + 1
    /\ \/ /\ Catch(<<>>)
          /\ ending' = "startError"
          /\ UNCHANGED stream
       \/ /\ stream' \in Streams
          /\ ending' \in Endings
          /\ log' = log \o Tagged(<<Line("=== Starting PR Review ===", "")>>, 0)
          /\ pc' = "await"
          /\ UNCHANGED exitCode
    /\ UNCHANGED <<script, env, owner, repo, pos, message, oldTask,
                   submissions, cliVars>>

\* an iterator that yields the stream's events last to first
NextMessageReversed ==
    /\ pc = "await"
    /\ pos < Len(stream)
    /\ message' = stream[Len(stream) - pos]
    /\ pos' = pos + 1
    /\ pc' = "handle"
    /\ UNCHANGED <<script, env, owner, repo, exitCode, log, queryCalls, stream,
                   ending, oldTask, submissions, cliVars>>

\* the iterator yields the next event to the loop
NextMessage ==
    /\ pc = "await"
    /\ pos < Len(stream)
    /\ message' = stream[pos + 1]
    /\ pos' = pos + 1
    /\ pc' = "handle"
    /\ UNCHANGED <<script, env, owner, repo, exitCode, log, queryCalls, stream,
                   ending, oldTask, submissions, cliVars>>

\* the loop body runs for `message`
HandleMessage ==
    /\ pc = "handle"
    /\ LET out == HandleBody(message)
       IN  IF out.throws
           THEN Catch(Tagged(out.lines, pos))
           ELSE /\ log' = log \o Tagged(out.lines, pos)
                /\ pc' = "await"
                /\ UNCHANGED exitCode
    /\ UNCHANGED <<script, env, owner, repo, oldTask, submissions, sdkVars,
                   cliVars>>

\* the iterator reports done: the loop ends, the success line is printed,
\* runAgent returns and the process ends with code 0
StreamClose ==
    /\ pc = "await"
    /\ pos = Len(stream)
    /\ ending = "close"
    /\ Exit(Tagged(<<Line("PR Review Agent completed successfully", "")>>, 0), 0)
    /\ UNCHANGED <<script, env, owner, repo, oldTask, submissions, sdkVars,
                   cliVars>>

\* the request for the next event rejects
StreamFault ==
    /\ pc = "await"
    /\ pos = Len(stream)
    /\ ending = "fault"
    /\ Catch(<<>>)
    /\ UNCHANGED <<script, env, owner, repo, oldTask, submissions, sdkVars,
                   cliVars>>

--------------------------------------------------------------------------
(* cli: cline config, then the task command *)

\* execSync(`cline config set api-key=...`) and, when it returns, the
\* top-level code up to the task command
ClineConfigSet ==
    /\ pc = "config"
    /\ script = "cli"
    /\ configCalls' = configCalls + 1
    /\ \/ Exit(Tagged(<<Line("=== Configuring Cline ===", ""),
                        Line("Failed to configure API key:", "error.message")>>, 0), 1)
       \/ /\ log' = log \o Tagged(<<Line("=== Configuring Cline ===", ""),
                                    Line("API key configured", ""),
                                    Line("=== Starting PR Review ===", "")>>, 0)
          /\ pc' = "exec"
          /\ UNCHANGED exitCode
    /\ UNCHANGED <<script, env, owner, repo, oldTask, submissions, sdkVars,
                   taskCalls, bg, fg, followed, viewStatus>>

\* execSync(`cline task new ... & sleep 2 && cline task view ...`): the shell
\* starts the task command in the background and the sleep in the foreground
TaskExec ==
    /\ pc = "exec"
    /\ taskCalls' = taskCalls + 1
    /\ bg' = "running"
    /\ fg' = "sleeping"
    /\ pc' = "shell"
    /\ UNCHANGED <<script, env, owner, repo, exitCode, log, oldTask,
                   submissions, sdkVars, configCalls, followed, viewStatus>>

\* the background `cline task new` ends: the task exists, or it failed
BgTaskNew ==
    /\ bg = "running"
    /\ bg' \in {"created", "failed"}
    /\ UNCHANGED <<script, env, owner, repo, pc, exitCode, log, oldTask,
                   submissions, sdkVars, configCalls, taskCalls, fg, followed,
                   viewStatus>>

\* the task a `cline task view` without a task id attaches to
ViewTarget ==
    IF bg = "created" THEN "new" ELSE IF oldTask THEN "old" ELSE "none"

\* sleep 2 ends and `cline task view --follow-complete` starts
FgViewStart ==
    /\ fg = "sleeping"
    /\ fg' = "viewing"
    /\ followed' = ViewTarget
    /\ UNCHANGED <<script, env, owner, repo, pc, exitCode, log, oldTask,
                   submissions, sdkVars, configCalls, taskCalls, bg, viewStatus>>

\* the view command ends with some exit status
FgViewExit ==
    /\ fg = "viewing"
    /\ fg' = "done"
    /\ viewStatus' \in {0, 1}
    /\ UNCHANGED <<script, env, owner, repo, pc, exitCode, log, oldTask,
                   submissions, sdkVars, configCalls, taskCalls, bg, followed>>

\* execSync returns with the status of the foreground list, once both
\* children have closed the output pipe
ShellReturn ==
    /\ pc = "shell"
    /\ fg = "done"
    /\ bg # "running"
    /\ IF viewStatus = 0
       THEN Exit(Tagged(<<Line("output", ""),
                          Line("PR Review completed successfully", "")>>, 0), 0)
       ELSE Exit(Tagged(<<Line("PR Review failed", ""),
                          Line("Output:", "error.stdout"),
                          Line("Errors:", "error.stderr")>>, 0), 1)
    /\ UNCHANGED <<script, env, owner, repo, oldTask, submissions, sdkVars,
                   cliVars>>

--------------------------------------------------------------------------

Next ==
    \/ ValidateEnv
    \/ Query
    \/ NextMessage
    \/ HandleMessage
    \/ StreamClose
    \/ StreamFault
    \/ ClineConfigSet
    \/ TaskExec
    \/ BgTaskNew
    \/ FgViewStart
    \/ FgViewExit
    \/ ShellReturn

Spec == Init /\ [][Next]_vars

\* Every step that can be taken is eventually taken: the event loop runs a
\* continuation that is ready, and the shell's child processes make progress.
\* A stream that neither yields, closes nor breaks enables no step.
FairSpec == Spec /\ WF_vars(Next)

--------------------------------------------------------------------------
(* Vocabulary of the properties *)

Exited == pc = "exited"

\* the stream of a started sdk session that the runtime closes normally
ClosedStream == script = "sdk" /\ ending = "close"

LastEvent == stream[Len(stream)]

IsResult(m) == m.type = "result"

SuccessResult == ResultEvent("success", TRUE, 0)

Malformed(m) == HandleBody(m).throws

SuccessPrinted == Printed(SuccessMessage)

\* the disposition of a finished run
Aborted == Exited /\ exitCode # 0 /\ ~SuccessPrinted

Succeeded == Exited /\ exitCode = 0 /\ SuccessPrinted

RequiredInputs ==
    {"ANTHROPIC_API_KEY", "GITHUB_TOKEN", "GITHUB_REPOSITORY", "PR_NUMBER",
     "HEAD_SHA"}

InputMissing == \E k \in RequiredInputs : Falsy(env[k])

\* number of session starts: query() calls, cline commands
StartCalls == queryCalls + configCalls + taskCalls

\* the four identity fields of the session request
IdentityFields ==
    LET parts == IF env.GITHUB_REPOSITORY.def
                 THEN Split(env.GITHUB_REPOSITORY.s, "/") ELSE <<>>
    IN  <<Destructure(parts, 1), Destructure(parts, 2),
          env.PR_NUMBER, env.HEAD_SHA>>

IdentityNonEmpty == \A i \in 1..4 : ~Falsy(IdentityFields[i])

ConfigurationError ==
    /\ Exited
    /\ exitCode # 0
    /\ StartCalls = 0
    /\ ~Printed("Starting AI-powered review for ")

\* number of complete summary blocks printed (a block ends with its status line)
SummaryCount ==
    Cardinality({k \in 1..Len(log) : log[k].line.fmt = "Status: "})

--------------------------------------------------------------------------
(* Properties *)

\* C1: a run whose stream ends (closes) with Result{error_max_turns} as its
\* last event finishes aborted: non-zero exit code, no success message.
C1_MaxTurnsAborts ==
    (Exited /\ ClosedStream /\ stream # <<>>
       /\ LastEvent = ResultEvent("error_max_turns", TRUE, 0))
    => Aborted

\* C2: a run whose stream closes without any Result event finishes aborted
\* with a non-zero exit code.
C2_NoResultAborts ==
    (Exited /\ ClosedStream /\ \A i \in 1..Len(stream) : ~IsResult(stream[i]))
    => Aborted

\* C3: the success disposition is reached only if a Result{success} event was
\* observed, and a terminal Result of any other subtype leads to the aborted
\* disposition.
C3_SuccessOnlyAfterSuccessResult ==
    /\ (script = "sdk" /\ Exited /\ (exitCode = 0 \/ SuccessPrinted))
       => \E i \in 1..pos : IsResult(stream[i]) /\ stream[i].subtype = "success"
    /\ (Exited /\ ClosedStream /\ stream # <<>> /\ IsResult(LastEvent)
          /\ LastEvent.subtype # "success")
       => Aborted

\* C4: when one of the five required inputs is absent or empty, the process
\* never gets past validation: it can only exit, with a non-zero code; no
\* session is started, no cline command is run and GH_TOKEN is not written.
C4_MissingInputIsFatal ==
    InputMissing
    => /\ pc \in {"validate", "exited"}
       /\ Exited => exitCode # 0
       /\ queryCalls = 0
       /\ configCalls = 0
       /\ taskCalls = 0
       /\ env.GH_TOKEN = JsUndefined

C4_Witness ==
    /\ Exited
    /\ exitCode = 1
    /\ Falsy(env.HEAD_SHA)
    /\ \A k \in RequiredInputs \ {"HEAD_SHA"} : ~Falsy(env[k])
    /\ Printed("Error: GitHub environment variables missing")

\* C5: with both credentials present, once validation has run the run has
\* failed with a configuration error and zero session starts exactly when one
\* of the four identity fields (owner, repo, PR number, commit SHA) is empty.
C5_EmptyIdentityIsConfigError ==
    (pc # "validate" /\ ~Falsy(env.ANTHROPIC_API_KEY) /\ ~Falsy(env.GITHUB_TOKEN))
    => (ConfigurationError <=> ~IdentityNonEmpty)

\* C6: a malformed event is skipped: a closed stream that holds a malformed
\* event and ends with Result{success} is consumed to its end and the run
\* finishes with the success disposition.
C6_MalformedEventSkipped ==
    (Exited /\ ClosedStream /\ stream # <<>> /\ LastEvent = SuccessResult
       /\ \E i \in 1..Len(stream) : Malformed(stream[i]))
    => (Succeeded /\ pos = Len(stream))

\* C7: the session is started at most once per process run, whatever events
\* or failures occur.
C7_StartedAtMostOnce == queryCalls <= 1 /\ taskCalls <= 1

C7_Witness ==
    /\ Exited
    /\ exitCode = 1
    /\ queryCalls = 1
    /\ ending = "fault"
    /\ pos = Len(stream)
    /\ \E i \in 1..pos : IsResult(stream[i]) /\ stream[i].subtype # "success"

\* C8: a run whose stream closes with Result{success} as its last event ends
\* with exit code 0, and the orchestrator submits no review itself.
C8_SuccessResultExitsZero ==
    (Exited /\ ClosedStream /\ stream # <<>> /\ LastEvent = SuccessResult)
    => (exitCode = 0 /\ submissions = 0)

\* C9: the "Review Completed" summary block is printed at most once per run.
C9_SummaryAtMostOnce == SummaryCount <= 1

\* C10: when query() throws, or the first request for an event fails, no
\* event is handled, the success message is not printed, query() has been
\* called exactly once, and the only way on is the exit with a non-zero code.
StartFailed ==
    /\ script = "sdk"
    /\ \/ ending = "startError"
       \/ ending = "fault" /\ stream = <<>>

C10_StartFailureIsFatal ==
    StartFailed
    => /\ pos = 0
       /\ message = NoMessage
       /\ ~SuccessPrinted
       /\ queryCalls = 1
       /\ pc \in {"await", "exited"}
       /\ ending = "startError" => Exited
       /\ Exited => exitCode # 0

C10_Witness ==
    /\ ending = "startError"
    /\ Exited
    /\ exitCode = 1
    /\ Printed("Fatal error:")
    /\ ~Printed("=== Starting PR Review ===")

--------------------------------------------------------------------------
(* Output of the loop as a function of the stream *)

\* number of events whose loop body has run (to its end or to its throw)
Handled == IF pc = "handle" THEN pos - 1 ELSE pos

\* the output of handling the first n events of s one after the other
RECURSIVE EventLog(_, _)
EventLog(s, n) ==
    IF n = 0 THEN <<>>
    ELSE EventLog(s, n - 1) \o Tagged(HandleBody(s[n]).lines, n)

IsEventEntry(e) == e.ev > 0

\* the entries of the log printed by the loop body
EventEntries == SelectSeq(log, IsEventEntry)

\* the events whose handling has left an entry in the log
EntryTags == {log[k].ev : k \in {j \in 1..Len(log) : log[j].ev > 0}}

\* the lines printed by the handling of event i
LinesOf(i) ==
    LET IsOfEvent(e) == e.ev = i
        sel == SelectSeq(log, IsOfEvent)
    IN  [k \in 1..Len(sel) |-> sel[k].line]

\* index of the first event of s whose handling throws, 0 if none
FirstThrow(s) ==
    IF \E i \in 1..Len(s) : Malformed(s[i])
    THEN CHOOSE i \in 1..Len(s) :
             Malformed(s[i]) /\ \A j \in 1..(i - 1) : ~Malformed(s[j])
    ELSE 0

\* the events of s the loop gets to handle
Consumed(s) == IF FirstThrow(s) = 0 THEN Len(s) ELSE FirstThrow(s)

\* exit code and complete output of an sdk run that ended, from its stream alone
FinalExit(s, e) == IF FirstThrow(s) = 0 /\ e = "close" THEN 0 ELSE 1

FinalLog(s, e) ==
    Tagged(<<Line("Starting AI-powered review for ", "GITHUB_REPOSITORY#PR_NUMBER"),
             Line("=== Starting PR Review ===", "")>>, 0)
    \o EventLog(s, Consumed(s))
    \o Tagged(<<IF FinalExit(s, e) = 0
                THEN Line("PR Review Agent completed successfully", "")
                ELSE Line("Fatal error:", "error")>>, 0)

\* C11: events are handled one at a time in arrival order: at every moment the
\* output of the loop is exactly the output of events 1..k, in that order and
\* each complete, where k is the number of events handled so far; nothing of
\* an event is printed before the handling of its predecessor has ended.
C11_ArrivalOrder ==
    /\ EventEntries = EventLog(stream, Handled)
    /\ \A k \in 1..Len(log) : log[k].ev <= Handled

C11_Witness ==
    /\ Exited
    /\ exitCode = 0
    /\ stream = <<Event("system", "init", FALSE, <<>>, FALSE, 0),
                  AssistantEvent(TRUE, <<"text", "tool_use">>),
                  SuccessResult>>
    /\ EntryTags = {1, 2, 3}
    /\ LinesOf(2) = <<Line("[Assistant] ", "text"), Line("[Tool Use] ", "name"),
                      Line("JSON.stringify", "input")>>

\* C12: the classification is a deterministic fold: the complete output and
\* the exit code of a finished run are a function of the event sequence (and
\* of how the stream ended) alone, and an event that occurs twice in a stream
\* produces the same output both times, whatever came before or after it.
C12_DeterministicFold ==
    (script = "sdk" /\ Exited /\ ending \in Endings)
    => /\ log = FinalLog(stream, ending)
       /\ exitCode = FinalExit(stream, ending)
       /\ \A i, j \in 1..Consumed(stream) :
              stream[i] = stream[j] => LinesOf(i) = LinesOf(j)

C12_Witness ==
    /\ Exited
    /\ ending = "close"
    /\ Len(stream) = 3
    /\ stream[1] = stream[3]
    /\ stream[1] = Event("system", "init", FALSE, <<>>, FALSE, 0)
    /\ stream[2] = AssistantEvent(TRUE, <<"text", "tool_use">>)
    /\ LinesOf(1) = LinesOf(3)
    /\ LinesOf(1) # <<>>

\* C13: the Result event is terminal: once the loop has received a Result
\* event, it receives no later event of the stream.
C13_ResultIsTerminal ==
    \A i \in 1..pos : IsResult(stream[i]) => pos = i

\* C14: once a Result event has been handled the run eventually ends with an
\* exit code, whatever the runtime does afterwards.
C14_TerminatesAfterResult ==
    (\E i \in 1..Handled : IsResult(stream[i])) ~> Exited

\* the session has been started: query() was called, the task command was run
Started == queryCalls > 0 \/ taskCalls > 0

\* C15: the credentials are in place strictly before the session start
\* (GH_TOKEN equals GITHUB_TOKEN, and in the cli script the api key has been
\* configured once), and neither the start step nor any later step changes
\* the execution environment or configures cline again.
C15_CredentialsBeforeStart ==
    [][(queryCalls' > 0 \/ taskCalls' > 0)
       => /\ env.GH_TOKEN = env.GITHUB_TOKEN
          /\ ~Falsy(env.GH_TOKEN)
          /\ script = "cli" => configCalls = 1
          /\ env' = env
          /\ configCalls' = configCalls]_vars

C15_Witness ==
    /\ Started
    /\ Exited
    /\ script = "cli"
    /\ configCalls = 1
    /\ env.GH_TOKEN = JsString(<<"k">>)

EmptyAssistant == AssistantEvent(TRUE, <<>>)

IsNotEmptyAssistant(m) == m # EmptyAssistant

\* an event of a kind the loop body has no branch for
Unrecognised(m) ==
    /\ m.type \notin {"assistant", "result"}
    /\ ~(m.type = "system" /\ m.subtype = "init")

IsRecognised(m) == ~Unrecognised(m)

\* the lines of a log, without the event numbers
LinesOnly(l) == [k \in 1..Len(l) |-> l[k].line]

\* the step that handles `message` prints nothing, ends no run and goes on
\* to the request for the next event
SilentStep ==
    /\ log' = log
    /\ exitCode' = exitCode
    /\ pc' = "await"
    /\ UNCHANGED <<script, env, owner, repo, queryCalls, stream, ending, pos,
                   message, submissions, oldTask, cliVars>>

\* a finished run printed and exited as the stream s would have made it
SameOutcomeAs(s) ==
    /\ LinesOnly(log) = LinesOnly(FinalLog(s, ending))
    /\ exitCode = FinalExit(s, ending)

\* C16: an Assistant event with zero segments is a no-op: its handling prints
\* nothing and changes nothing but the loop's position, the next event is
\* requested, and a finished run has the output and exit code of the same
\* stream without such events.
C16_EmptyAssistantIsNoOp ==
    /\ [][(pc = "handle" /\ message = EmptyAssistant) => SilentStep]_vars
    /\ []((script = "sdk" /\ Exited /\ ending \in Endings)
          => SameOutcomeAs(SelectSeq(stream, IsNotEmptyAssistant)))

C16_Witness ==
    /\ Exited
    /\ exitCode = 0
    /\ stream = <<EmptyAssistant, AssistantEvent(TRUE, <<"text", "tool_use">>),
                  SuccessResult>>
    /\ EntryTags = {2, 3}

\* C19: an event of an unrecognised kind is ignored: its handling prints
\* nothing and changes nothing but the loop's position, the next event is
\* requested, and a finished run has the output and exit code of the same
\* stream without such events.
C19_UnrecognisedIgnored ==
    /\ [][(pc = "handle" /\ Unrecognised(message)) => SilentStep]_vars
    /\ []((script = "sdk" /\ Exited /\ ending \in Endings)
          => SameOutcomeAs(SelectSeq(stream, IsRecognised)))

C19_Witness ==
    /\ Exited
    /\ exitCode = 0
    /\ stream = <<Event("user", "", FALSE, <<>>, FALSE, 0),
                  Event("system", "compact_boundary", FALSE, <<>>, FALSE, 0),
                  SuccessResult>>
    /\ EntryTags = {3}

\* C17: in the cli script, when `cline config set` fails or the background
\* `cline task new` fails, the run ends with a non-zero exit code and without
\* the success message.
C17_RuntimeInitFailureIsFatal ==
    (script = "cli" /\ Exited
       /\ (Printed("Failed to configure API key:") \/ bg = "failed"))
    => (exitCode # 0 /\ ~SuccessPrinted)

\* C18: in every interleaving the view command starts only after the task of
\* this run has been created, and so attaches to this run's task.
C18_FollowsOwnTask ==
    fg \in {"viewing", "done"} => (bg = "created" /\ followed = "new")

====
